---------------------------- MODULE Spec2Model ----------------------------
(***************************************************************************)
(* Segmentation of a time series into repetitions of template actions      *)
(* (src/segmentation.py, src/utils.py).                                    *)
(*                                                                         *)
(* Real numbers are fixed-point integers in units of 1/Scale.  A point is  *)
(* a tuple of Dim fixed-point coordinates, a sequence a TLA+ sequence of   *)
(* points.  Squared quantities are in units of 1/Scale^2; ISqrt brings     *)
(* them back to units of 1/Scale.  Every rounding is a floor, which is     *)
(* monotone, so an order between two reals is never reversed (it can only  *)
(* collapse to an equality below the resolution).                          *)
(***************************************************************************)
EXTENDS Integers, Sequences, FiniteSets, TLC

\* fixed-point resolution of the model's real numbers
Scale == 10 * 10 * 10

\* np.inf
Inf == 999999999

\* warping_window=None; a window fraction w is the pair <<num, den>>
None == <<0, 1>>

Max(a, b) == IF a >= b THEN a ELSE b

Min(a, b) == IF a <= b THEN a ELSE b

Abs(a) == IF a >= 0 THEN a ELSE 0 - a

\* the sequence s as an explicit tuple, its elements evaluated once
Eager(s) == s \o <<>>

\* int(np.ceil(num / den)) for num >= 0, den > 0
CeilDiv(num, den) == (num + den - 1) \div den

\* floor of the square root
RECURSIVE ISqrt(_)
ISqrt(n) ==
    IF n < 2 THEN n
    ELSE LET s == 2 * ISqrt(n \div 4)
         IN  IF (s + 1) * (s + 1) > n THEN s ELSE s + 1

\* a + b with np.inf absorbing
AddInf(a, b) == IF a >= Inf \/ b >= Inf THEN Inf ELSE a + b

RECURSIVE SumSeq(_)
SumSeq(s) == IF s = <<>> THEN 0 ELSE AddInf(Head(s), SumSeq(Tail(s)))

\* np.sum((p - q) ** 2) over the coordinates of two points
RECURSIVE SqDist(_, _)
SqDist(p, q) ==
    IF p = <<>> THEN 0
    ELSE (Head(p) - Head(q)) * (Head(p) - Head(q)) + SqDist(Tail(p), Tail(q))

\* the raw integer point p in fixed-point units
FixPoint(p) == Eager([c \in 1..Len(p) |-> p[c] * Scale])

FixSeq(s) == Eager([i \in 1..Len(s) |-> FixPoint(s[i])])

(***************************************************************************)
(* utils.sakoe_chiba_mask.  Indices are 0-based as in the code; a slice    *)
(* lower:upper is clipped to the axis by numpy.                            *)
(***************************************************************************)
MaskHalfWidth(sz1, sz2, warping_window) ==
    Max(CeilDiv(warping_window[1] * Max(sz1, sz2), warping_window[2]),
        Abs(sz1 - sz2) + 1)

\* a faulty upper: the slice bound without its + 1
SakoeChibaUpperMut(sz, i, w) == Min(sz, i + w)

\* upper = min(sz, i + w) + 1
SakoeChibaUpper(sz, i, w) == Min(sz, i + w) + 1

sakoe_chiba_mask(sz1, sz2, warping_window) ==
    LET w == MaskHalfWidth(sz1, sz2, warping_window)
    IN  IF sz1 <= sz2
        THEN [i \in 0..(sz1 - 1) |-> [j \in 0..(sz2 - 1) |->
                 IF Max(0, i - w) <= j /\ j < SakoeChibaUpper(sz2, i, w)
                 THEN 0 ELSE Inf]]
        ELSE [i \in 0..(sz1 - 1) |-> [j \in 0..(sz2 - 1) |->
                 IF Max(0, j - w) <= i /\ i < SakoeChibaUpper(sz1, j, w)
                 THEN 0 ELSE Inf]]

\* np.zeros((len_seq, len_temp))
ZeroMask(sz1, sz2) == [i \in 0..(sz1 - 1) |-> [j \in 0..(sz2 - 1) |-> 0]]

(***************************************************************************)
(* tslearn.metrics.njit_dtw(s1, s2, mask): the square root of the          *)
(* accumulated cost cum[l1, l2], where cum[0, 0] = 0, the rest of row 0    *)
(* and column 0 is inf, and a cell with a finite mask is the squared       *)
(* distance of its points plus the least of its left, upper and diagonal   *)
(* neighbours.  Computed row by row.                                       *)
(***************************************************************************)
Min3(a, b, c) == Min(a, Min(b, c))

\* row i of the accumulated cost: acc holds cum[i, 0..Len(acc)-1]
RECURSIVE DtwRow(_, _, _, _, _)
DtwRow(prev, p, s2, maskrow, acc) ==
    LET j == Len(acc)
    IN  IF j > Len(s2) THEN acc
        ELSE LET m == Min3(prev[j + 1], acc[j], prev[j])
                 c == IF maskrow[j - 1] >= Inf THEN Inf
                      ELSE AddInf(SqDist(p, s2[j]), m)
             IN  DtwRow(prev, p, s2, maskrow, Append(acc, c))

RECURSIVE DtwRows(_, _, _, _, _)
DtwRows(i, prev, s1, s2, mask) ==
    IF i > Len(s1) THEN prev
    ELSE DtwRows(i + 1, DtwRow(prev, s1[i], s2, mask[i - 1], <<Inf>>), s1, s2, mask)

njit_dtw(s1, s2, mask) ==
    LET row0 == [j \in 1..(Len(s2) + 1) |-> IF j = 1 THEN 0 ELSE Inf]
        last == DtwRows(1, row0, s1, s2, mask)[Len(s2) + 1]
    IN  IF last >= Inf THEN Inf ELSE ISqrt(last)

(***************************************************************************)
(* Template summaries (normalize_templates) and the lower-bound cascade.   *)
(***************************************************************************)
RECURSIVE ColMin(_, _)
ColMin(s, c) ==
    IF Len(s) = 1 THEN s[1][c] ELSE Min(s[1][c], ColMin(Tail(s), c))

RECURSIVE ColMax(_, _)
ColMax(s, c) ==
    IF Len(s) = 1 THEN s[1][c] ELSE Max(s[1][c], ColMax(Tail(s), c))

\* np.min(arr, axis=0)
SeqMin(s) == Eager([c \in 1..Len(s[1]) |-> ColMin(s, c)])

\* np.max(arr, axis=0)
SeqMax(s) == Eager([c \in 1..Len(s[1]) |-> ColMax(s, c)])

template_info_tuple(arr) ==
    [length |-> Len(arr), min |-> SeqMin(arr), max |-> SeqMax(arr),
     first_value |-> arr[1], last_value |-> arr[Len(arr)]]

\* templates_info of a list of groups of templates
InfoOf(templates) ==
    Eager([i \in 1..Len(templates) |->
        Eager([j \in 1..Len(templates[i]) |-> template_info_tuple(templates[i][j])])])

\* the least value of a sequence of group averages, as `if val < val_min`
RECURSIVE MinOfVals(_)
MinOfVals(vals) ==
    IF vals = <<>> THEN Inf ELSE Min(Head(vals), MinOfVals(Tail(vals)))

\* np.sum(r ** 2) where r is (a - b) clipped at 0 from below, coordinate-wise,
\* over the rows of s strictly between the first and the last
ExcessAbove(s, bound) ==
    SumSeq([i \in 1..Len(s) |->
        IF i = 1 \/ i = Len(s) THEN 0
        ELSE SumSeq([c \in 1..Len(bound) |->
                 IF s[i][c] - bound[c] >= 0
                 THEN (s[i][c] - bound[c]) * (s[i][c] - bound[c]) ELSE 0])])

ExcessBelow(s, bound) ==
    SumSeq([i \in 1..Len(s) |->
        IF i = 1 \/ i = Len(s) THEN 0
        ELSE SumSeq([c \in 1..Len(bound) |->
                 IF bound[c] - s[i][c] >= 0
                 THEN (bound[c] - s[i][c]) * (bound[c] - s[i][c]) ELSE 0])])

\* the exact squared deviation of the first and of the last values
DevFirstLast(sequence, info) ==
    SqDist(sequence[1], info.first_value)
        + SqDist(sequence[Len(sequence)], info.last_value)

\* one template's term of lower bound 1
Lb1Term(sequence, info) ==
    ISqrt(DevFirstLast(sequence, info)) \div (Len(sequence) + info.length)

Lb1GroupVal(sequence, t) ==
    SumSeq([j \in 1..Len(t) |-> Lb1Term(sequence, t[j])]) \div Len(t)

average_lb_distance_to_templates1(sequence, templates_info) ==
    MinOfVals([i \in 1..Len(templates_info) |->
                  Lb1GroupVal(sequence, templates_info[i])])

\* one template's term of lower bound 2: max(val1, val2)
Lb2Term(sequence, temp, info) ==
    LET dev  == DevFirstLast(sequence, info)
        val1 == ISqrt(ExcessAbove(sequence, info.max)
                        + ExcessBelow(sequence, info.min) + dev)
                    \div (Len(sequence) + info.length)
        val2 == ISqrt(ExcessAbove(temp, SeqMax(sequence))
                        + ExcessBelow(temp, SeqMin(sequence)) + dev)
                    \div (Len(sequence) + info.length)
    IN  Max(val1, val2)

Lb2GroupVal(sequence, t, tinfo) ==
    SumSeq([j \in 1..Len(t) |-> Lb2Term(sequence, t[j], tinfo[j])]) \div Len(t)

average_lb_distance_to_templates2(sequence, templates, templates_info) ==
    MinOfVals([i \in 1..Len(templates) |->
                  Lb2GroupVal(sequence, templates[i], templates_info[i])])

(***************************************************************************)
(* average_distance_to_templates: the average warped distance to each      *)
(* group, its minimum and the 1-based index of the first group attaining   *)
(* it (label stays 1 when no average is below inf).                        *)
(***************************************************************************)
DtwMask(len_seq, len_temp, warping_window) ==
    IF warping_window = None THEN ZeroMask(len_seq, len_temp)
    ELSE sakoe_chiba_mask(len_seq, len_temp, warping_window)

\* d = njit_dtw(sequence, temp, mask=mask) / float(len_seq + len_temp)
DtwTerm(sequence, temp, warping_window) ==
    LET d == njit_dtw(sequence, temp,
                      DtwMask(Len(sequence), Len(temp), warping_window))
    IN  IF d >= Inf THEN Inf ELSE d \div (Len(sequence) + Len(temp))

GroupVal(sequence, t, warping_window) ==
    LET v == SumSeq([j \in 1..Len(t) |-> DtwTerm(sequence, t[j], warping_window)])
    IN  IF v >= Inf THEN Inf ELSE v \div Len(t)

\* the average distance to every group, in group order
GroupVals(sequence, templates, warping_window) ==
    Eager([i \in 1..Len(templates) |-> GroupVal(sequence, templates[i], warping_window)])

\* the loop `if val < val_min: val_min = val; label = i + 1` over vals
RECURSIVE ArgMinFrom(_, _, _, _)
ArgMinFrom(vals, i, val_min, label) ==
    IF i > Len(vals) THEN <<val_min, label>>
    ELSE IF vals[i] < val_min THEN ArgMinFrom(vals, i + 1, vals[i], i)
         ELSE ArgMinFrom(vals, i + 1, val_min, label)

average_distance_to_templates(sequence, templates, warping_window) ==
    ArgMinFrom(GroupVals(sequence, templates, warping_window), 1, Inf, 1)

(***************************************************************************)
(* search_subsequence.  The random permutation of the candidate lengths    *)
(* is the parameter v.                                                     *)
(***************************************************************************)
\* np.cumsum(column c of s)[i - 1]
RECURSIVE CumSum(_, _, _)
CumSum(s, c, i) == IF i = 0 THEN 0 ELSE s[i][c] + CumSum(s, c, i - 1)

\* sequence_mean: the rolling mean of every column
RollingMean(sequence) ==
    Eager([i \in 1..Len(sequence) |->
        Eager([c \in 1..Len(sequence[1]) |-> CumSum(sequence, c, i) \div i])])

\* (sequence - sequence_mean) ** 2, row by row
RollingDev2(sequence, mean) ==
    Eager([i \in 1..Len(sequence) |->
        Eager([c \in 1..Len(sequence[1]) |->
            (sequence[i][c] - mean[i][c]) * (sequence[i][c] - mean[i][c])])])

\* sequence_stdev; the 1e-16 under the root is below the resolution
RollingStdev(sequence, mean) ==
    LET dev2 == RollingDev2(sequence, mean)
    IN  Eager([i \in 1..Len(sequence) |->
            Eager([c \in 1..Len(sequence[1]) |-> ISqrt(CumSum(dev2, c, i) \div i)])])

\* (x - mean) / stdev; a zero stdev comes with a zero numerator
ZScore(x, mean, stdev) ==
    IF stdev = 0 THEN 0 ELSE ((x - mean) * Scale) \div stdev

\* sequence_norm for the candidate length m
SequenceNorm(sequence, m, normalize) ==
    IF normalize
    THEN LET mean  == RollingMean(sequence)
             stdev == RollingStdev(sequence, mean)
         IN  Eager([i \in 1..m |-> Eager([c \in 1..Len(sequence[1]) |->
                 ZScore(sequence[i][c], mean[m][c], stdev[m][c])])])
    ELSE SubSeq(sequence, 1, m)

\* max_length after `if N > max_length: ... else: max_length = N`
ClampMax(N, max_length) == IF N > max_length THEN max_length ELSE N

\* min_length after `if min_length >= max_length: min_length = max(1, max_length - 1)`
ClampMin(min_length, max_length) ==
    IF min_length >= max_length THEN Max(1, max_length - 1) ELSE min_length

\* int(np.round(0.5 * (min_length + max_length))): halves round to even
MidLength(min_length, max_length) ==
    LET q == (min_length + max_length) \div 2
    IN  IF (min_length + max_length) % 2 = 0 THEN q
        ELSE IF q % 2 = 0 THEN q ELSE q + 1

\* np.arange(min_length, max_length + 1, length_step), as a set
ARange(min_length, max_length, length_step) ==
    {min_length + k * length_step : k \in 0..((max_length - min_length) \div length_step)}

\* the orders np.random.permutation can give to the set S
Orders(S) ==
    {v \in [1..Cardinality(S) -> S] : \A i, j \in 1..Cardinality(S) : v[i] = v[j] => i = j}

\* a faulty length_range: the midpoint is not taken out of v
LengthRangeMut(mid_length, v) == <<mid_length>> \o v

\* length_range = [mid_length] + list(v[v != mid_length])
LengthRange(mid_length, v) ==
    <<mid_length>> \o SelectSeq(v, LAMBDA x : x # mid_length)

\* a faulty pass: the evaluated candidate replaces the best without the
\* test `if d < d_min`
SearchStepMut(sequence, templates, templates_info, normalize, warping_window, use_lower_bounds, m, best) ==
    LET sequence_norm == SequenceNorm(sequence, m, normalize)
        d_lb1 == average_lb_distance_to_templates1(sequence_norm, templates_info)
        d_lb2 == average_lb_distance_to_templates2(sequence_norm, templates, templates_info)
        r     == average_distance_to_templates(sequence_norm, templates, warping_window)
    IN  IF use_lower_bounds /\ d_lb1 > best.d_min THEN best
        ELSE IF use_lower_bounds /\ d_lb2 > best.d_min THEN best
        ELSE [len_best |-> m, d_min |-> r[1], label_best |-> r[2]]

\* a faulty pass: a candidate is skipped when twice its bound exceeds d_min
SearchStepPruneMut(sequence, templates, templates_info, normalize, warping_window, use_lower_bounds, m, best) ==
    LET sequence_norm == SequenceNorm(sequence, m, normalize)
        d_lb1 == average_lb_distance_to_templates1(sequence_norm, templates_info)
        d_lb2 == average_lb_distance_to_templates2(sequence_norm, templates, templates_info)
        r     == average_distance_to_templates(sequence_norm, templates, warping_window)
    IN  IF use_lower_bounds /\ 2 * d_lb1 > best.d_min THEN best
        ELSE IF use_lower_bounds /\ 2 * d_lb2 > best.d_min THEN best
        ELSE IF r[1] < best.d_min
             THEN [len_best |-> m, d_min |-> r[1], label_best |-> r[2]]
             ELSE best

\* one pass of the loop `for m in length_range` on the running best
SearchStep(sequence, templates, templates_info, normalize, warping_window, use_lower_bounds, m, best) ==
    LET sequence_norm == SequenceNorm(sequence, m, normalize)
        d_lb1 == average_lb_distance_to_templates1(sequence_norm, templates_info)
        d_lb2 == average_lb_distance_to_templates2(sequence_norm, templates, templates_info)
        r     == average_distance_to_templates(sequence_norm, templates, warping_window)
    IN  IF use_lower_bounds /\ d_lb1 > best.d_min THEN best
        ELSE IF use_lower_bounds /\ d_lb2 > best.d_min THEN best
        ELSE IF r[1] < best.d_min
             THEN [len_best |-> m, d_min |-> r[1], label_best |-> r[2]]
             ELSE best

RECURSIVE SearchLoop(_, _, _, _, _, _, _, _)
SearchLoop(sequence, templates, templates_info, normalize, warping_window, use_lower_bounds, length_range, best) ==
    IF length_range = <<>> THEN best
    ELSE SearchLoop(sequence, templates, templates_info, normalize, warping_window,
                    use_lower_bounds, Tail(length_range),
                    SearchStep(sequence, templates, templates_info, normalize,
                               warping_window, use_lower_bounds,
                               Head(length_range), best))

\* the candidate lengths search_subsequence permutes for N available points
CandidateLengths(N, min_length, max_length, length_step) ==
    LET mx == ClampMax(N, max_length)
    IN  ARange(ClampMin(min_length, mx), mx, length_step)

search_subsequence(sequence, templates, templates_info, min_length, max_length, normalize, warping_window, use_lower_bounds, length_step, v) ==
    LET mx  == ClampMax(Len(sequence), max_length)
        mn  == ClampMin(min_length, mx)
        seq == SubSeq(sequence, 1, mx)
        mid_length == MidLength(mn, mx)
    IN  SearchLoop(seq, templates, templates_info, normalize, warping_window,
                   use_lower_bounds, LengthRange(mid_length, v),
                   [len_best |-> mid_length, d_min |-> Inf, label_best |-> 0])

(***************************************************************************)
(* normalize_templates: z-score of a template (scipy.stats.zscore, axis 0, *)
(* population standard deviation).                                         *)
(***************************************************************************)
ColMean(s, c) == CumSum(s, c, Len(s)) \div Len(s)

ColStd(s, c) ==
    LET mu == ColMean(s, c)
        d2 == [i \in 1..Len(s) |-> <<(s[i][c] - mu) * (s[i][c] - mu)>>]
    IN  ISqrt(CumSum(d2, 1, Len(s)) \div Len(s))

zscore(s) ==
    Eager([i \in 1..Len(s) |-> Eager([c \in 1..Len(s[1]) |->
        ZScore(s[i][c], ColMean(s, c), ColStd(s, c))])])

\* templates_norm of a list of groups of raw templates
TemplatesNorm(templates, normalize) ==
    Eager([i \in 1..Len(templates) |-> Eager([j \in 1..Len(templates[i]) |->
        IF normalize THEN zscore(FixSeq(templates[i][j]))
        ELSE FixSeq(templates[i][j])])])

(***************************************************************************)
(* np.percentile with linear interpolation, on integers.                   *)
(***************************************************************************)
RECURSIVE SortInsert(_, _)
SortInsert(x, s) ==
    IF s = <<>> THEN <<x>>
    ELSE IF x <= Head(s) THEN <<x>> \o s
         ELSE <<Head(s)>> \o SortInsert(x, Tail(s))

RECURSIVE Sorted(_)
Sorted(s) == IF s = <<>> THEN <<>> ELSE SortInsert(Head(s), Sorted(Tail(s)))

\* the q-th percentile (q in 0..100) of a non-empty sequence; the
\* interpolated part is rounded down
Percentile(s, q) ==
    LET t   == Sorted(s)
        pos == q * (Len(t) - 1)
        lo  == pos \div 100
        hi  == Min(lo + 1, Len(t) - 1)
    IN  t[lo + 1] + ((t[hi + 1] - t[lo + 1]) * (pos % 100)) \div 100

\* twice the median, an integer whatever the parity of the length
Median2(s) ==
    LET t == Sorted(s)
    IN  t[(Len(t) - 1) \div 2 + 1] + t[Len(t) \div 2 + 1]

(***************************************************************************)
(* normalize_templates: the length statistics.  alpha is the fraction      *)
(* <<num, den>>.                                                           *)
(***************************************************************************)
\* alpha = 0.75, the default of preprocess_templates
Alpha == <<3, 4>>

\* len_arr of one group
LenArr(group) == Eager([j \in 1..Len(group) |-> Len(group[j])])

\* v = min(len_stats[0], max(2, np.floor(alpha * len_stats[1])))
GroupMinLength(len_arr, alpha) ==
    Min(Percentile(len_arr, 0),
        Max(2, (alpha[1] * Median2(len_arr)) \div (2 * alpha[2])))

\* v = max(len_stats[2], np.ceil((1.0 / alpha) * len_stats[1]))
GroupMaxLength(len_arr, alpha) ==
    Max(Percentile(len_arr, 100),
        CeilDiv(alpha[2] * Median2(len_arr), 2 * alpha[1]))

\* templates_length, the lengths of all the templates in group order
RECURSIVE TemplatesLength(_)
TemplatesLength(templates) ==
    IF templates = <<>> THEN <<>>
    ELSE LenArr(Head(templates)) \o TemplatesLength(Tail(templates))

RECURSIVE MinOver(_, _, _)
MinOver(templates, alpha, acc) ==
    IF templates = <<>> THEN acc
    ELSE LET v == GroupMinLength(LenArr(Head(templates)), alpha)
         IN  MinOver(Tail(templates), alpha, IF v < acc THEN v ELSE acc)

RECURSIVE MaxOver(_, _, _)
MaxOver(templates, alpha, acc) ==
    IF templates = <<>> THEN acc
    ELSE LET v == GroupMaxLength(LenArr(Head(templates)), alpha)
         IN  MaxOver(Tail(templates), alpha, IF v > acc THEN v ELSE acc)

\* length_stats = [min_length, median length, max_length], every group
\* being non-empty
LengthStats(templates, alpha) ==
    <<MinOver(templates, alpha, Inf),
      Median2(TemplatesLength(templates)) \div 2,
      MaxOver(templates, alpha, 0 - Inf)>>

(***************************************************************************)
(* segment_repeat_sequences, the driver.                                   *)
(*                                                                         *)
(*   data           the input series                                       *)
(*   cfg            the other arguments of the call                        *)
(*   data_rem       the remainder still to be segmented                    *)
(*   data_segments  the segments emitted so far                            *)
(*   labels         their labels                                           *)
(*   offset         the scan position inside data_rem                      *)
(*   info_best      the tracked best match                                 *)
(*   match          whether a match is tracked                             *)
(*   pc             the position in the function                           *)
(*   returned       history: every result search_subsequence returned,     *)
(*                  with the absolute index of the suffix it searched      *)
(***************************************************************************)
VARIABLES data, cfg, data_rem, data_segments, labels, offset, info_best, match, pc, returned

driverVars == <<data, cfg, data_rem, data_segments, labels, offset, info_best, match, pc, returned>>

(***************************************************************************)
(* sakoe_chiba_mask as a call of its own.                                  *)
(*                                                                         *)
(*   m_sz1, m_sz2, m_window   the arguments                                *)
(*   m_mask                   the mask returned                            *)
(*   m_pc                     "call" before the call, "done" after it      *)
(***************************************************************************)
VARIABLES m_sz1, m_sz2, m_window, m_mask, m_pc

maskVars == <<m_sz1, m_sz2, m_window, m_mask, m_pc>>

(***************************************************************************)
(* The lower bounds and the exact average distance on one candidate        *)
(* sequence, as search_subsequence evaluates them for one length.          *)
(*                                                                         *)
(*   b_sequence, b_templates, b_window   the arguments                     *)
(*   b_vals   the values returned: lb1, lb2 and the exact (d, label)       *)
(*   b_pc     "call" before the evaluation, "done" after it                *)
(***************************************************************************)
VARIABLES b_sequence, b_templates, b_window, b_vals, b_pc

boundVars == <<b_sequence, b_templates, b_window, b_vals, b_pc>>

(***************************************************************************)
(* preprocess_templates: normalize_templates, then find_distance_thresholds*)
(* group by group.                                                         *)
(*                                                                         *)
(*   c_in          the arguments and the environment of the call: the raw  *)
(*                 templates, normalize, warping_window, alpha,            *)
(*                 max_num_samples and multiprocessing.cpu_count()         *)
(*   c_templates   templates_norm                                          *)
(*   c_length_stats                                                        *)
(*   c_i           the group being processed (1-based)                     *)
(*   c_num_templates  the memo of (k, ns) by group size                    *)
(*   c_selected    the indices stratified_sample chose, group by group     *)
(*   c_index_list  the leave-one-out tasks of the current group            *)
(*   c_status      the state of each task in the worker pool               *)
(*   c_distances   the distribution gathered for the current group         *)
(*   c_thresholds  distance_thresholds                                     *)
(*   c_pc          the position in the call                                *)
(*   c_error       the exception that ended the call, if any               *)
(*   c_failed      history: the groups one of whose tasks failed           *)
(***************************************************************************)
VARIABLES c_in, c_templates, c_length_stats, c_i, c_num_templates, c_selected, c_index_list, c_status, c_distances, c_thresholds, c_pc, c_error, c_failed

calibVars == <<c_in, c_templates, c_length_stats, c_i, c_num_templates, c_selected, c_index_list, c_status, c_distances, c_thresholds, c_pc, c_error, c_failed>>

(***************************************************************************)
(* find_max_combinations as a call of its own.                             *)
(***************************************************************************)
VARIABLES
    f_n,      \* argument n
    f_k,      \* argument k, NoK for None
    f_out,    \* the returned (k, v)
    f_pc      \* "call", "done", "raised" or "idle"

comboVars == <<f_n, f_k, f_out, f_pc>>

(***************************************************************************)
(* search_subsequence as a call of its own.                                *)
(***************************************************************************)
VARIABLES
    s_sequence,      \* argument sequence
    s_min_length,    \* argument min_length
    s_max_length,    \* argument max_length
    s_length_step,   \* argument length_step
    s_v,             \* the outcome of np.random.permutation
    s_visited,       \* the lengths the loop has visited, in order
    s_out,           \* the returned (len_best, d_min, label_best)
    s_pc             \* "call", "done" or "idle"

searchVars == <<s_sequence, s_min_length, s_max_length, s_length_step, s_v, s_visited, s_out, s_pc>>

vars == <<driverVars, maskVars, boundVars, calibVars, comboVars, searchVars>>

\* longest input series
MaxLen == 5

\* coordinates of the input points (before scaling)
MaxValue == 2

\* `(offset - info_best[0]) > 10`
ScanLimit == 10

\* `offset += (5 * offset_step)`
ApproxFactor == 5

\* a one-dimensional sequence from a tuple of integers
Seq1(t) == Eager([i \in 1..Len(t) |-> <<t[i]>>])

SeqsUpTo(S, n) == UNION {[1..k -> S] : k \in 0..n}

DataSet == {FixSeq(Seq1(t)) : t \in SeqsUpTo(0..MaxValue, MaxLen)}

\* two actions: a peak, and a step given as two templates
TemplatesPeakStep == << <<Seq1(<<0, 2, 0>>)>>, <<Seq1(<<0, 1>>), Seq1(<<0, 1, 1>>)>> >>

\* two actions whose templates have 2 and 4 points
TemplatesShortLong == << <<Seq1(<<0, 1>>)>>, <<Seq1(<<0, 1, 2, 0>>)>> >>

MakeCfg(templates, thresholds, normalize, warping_window, length_step, offset_step, approx) ==
    [templates_norm |-> TemplatesNorm(templates, normalize),
     templates_info |-> InfoOf(TemplatesNorm(templates, normalize)),
     distance_thresholds |-> thresholds,
     length_stats |-> LengthStats(templates, Alpha),
     normalize |-> normalize,
     warping_window |-> warping_window,
     length_step |-> length_step,
     offset_step |-> offset_step,
     approx |-> approx]

\* the calls modelled
Configs ==
    { MakeCfg(TemplatesPeakStep, <<120, 120>>, FALSE, None, 1, 1, FALSE),
      MakeCfg(TemplatesPeakStep, <<50, 400>>, FALSE, <<1, 2>>, 1, 1, TRUE),
      MakeCfg(TemplatesPeakStep, <<200, 200>>, TRUE, None, 2, 2, FALSE),
      MakeCfg(TemplatesShortLong, <<0, 0>>, FALSE, None, 1, 1, FALSE) }

min_length == cfg.length_stats[1]

max_length == cfg.length_stats[3]

\* numpy's s[a:b]
Slice(s, a, b) == SubSeq(s, a + 1, Min(b, Len(s)))

\* numpy's s[a:]
SliceFrom(s, a) == SubSeq(s, a + 1, Len(s))

\* a faulty lookup: the threshold of the first group whatever the label
ThresholdOfMut(label) == cfg.distance_thresholds[1]

\* distance_thresholds[label - 1]; index -1 is the last element
ThresholdOf(label) ==
    IF label = 0 THEN cfg.distance_thresholds[Len(cfg.distance_thresholds)]
    ELSE cfg.distance_thresholds[label]

\* a faulty test: the comparison reversed
WithinThresholdMut(d_avg, label) == d_avg >= ThresholdOf(label)

\* `if d_avg <= distance_thresholds[label - 1]`
WithinThreshold(d_avg, label) == d_avg <= ThresholdOf(label)

\* points of data already moved into data_segments
Consumed == Len(data) - Len(data_rem)

DriverInit ==
    /\ data \in DataSet
    /\ cfg \in Configs
    /\ data_rem = data
    /\ data_segments = <<>>
    /\ labels = <<>>
    /\ offset = 0
    /\ info_best = [offset |-> 0, m |-> 0, d_avg |-> Inf, label |-> 0]
    /\ match = FALSE
    /\ pc = "outer"
    /\ returned = {}

\* `while data_rem.shape[0] > min_length:` entered
OuterEnter ==
    /\ pc = "outer"
    /\ Len(data_rem) > min_length
    /\ offset' = 0
    /\ info_best' = [offset |-> 0, m |-> 0, d_avg |-> Inf, label |-> 0]
    /\ match' = FALSE
    /\ pc' = "scan"
    /\ UNCHANGED <<data, cfg, data_rem, data_segments, labels, returned>>
    /\ UNCHANGED <<maskVars, boundVars, calibVars, comboVars, searchVars>>

\* the outer loop ends on its condition
OuterExit ==
    /\ pc = "outer"
    /\ ~(Len(data_rem) > min_length)
    /\ pc' = "tail"
    /\ UNCHANGED <<data, cfg, data_rem, data_segments, labels, offset, info_best, match, returned>>
    /\ UNCHANGED <<maskVars, boundVars, calibVars, comboVars, searchVars>>

\* a faulty increment: the offset stays while nothing has matched
NextOffsetMut(off, matched) == IF matched THEN off + cfg.offset_step ELSE off

\* the offset after one pass of the inner loop
NextOffset(off, matched) ==
    IF matched THEN off + cfg.offset_step
    ELSE IF cfg.approx THEN off + ApproxFactor * cfg.offset_step
         ELSE off + cfg.offset_step

\* the early termination test of the inner loop
ScanTerminates(off, best) ==
    (off - best.offset) > ScanLimit \/ (off - best.offset) >= (best.m - 1)

\* a faulty test: an equal distance replaces the tracked best
ImprovesMut(d_avg, best) == d_avg <= best.d_avg

\* whether a new match replaces the tracked best of the same label
Improves(d_avg, best) == d_avg < best.d_avg

\* the permutations v that give search_subsequence different visiting orders
\* on N points: one v for each order of the lengths other than the midpoint
SearchOrders(N) ==
    LET S   == CandidateLengths(N, min_length, max_length, cfg.length_step)
        mx  == ClampMax(N, max_length)
        mid == MidLength(ClampMin(min_length, mx), mx)
    IN  IF mid \in S THEN {<<mid>> \o w : w \in Orders(S \ {mid})} ELSE Orders(S)

\* the call of search_subsequence made by the driver, with permutation v
Search(sequence, v) ==
    search_subsequence(sequence, cfg.templates_norm, cfg.templates_info,
                       min_length, max_length, cfg.normalize, cfg.warping_window,
                       TRUE, cfg.length_step, v)

\* one pass of the inner loop: a search at the current offset
ScanStep ==
    /\ pc = "scan"
    /\ (Len(data_rem) - offset) > min_length
    /\ \E v \in SearchOrders(Len(data_rem) - offset) :
       \E r \in {Search(SliceFrom(data_rem, offset), v)} :
         LET m      == r.len_best
             d_avg  == r.d_min
             label  == r.label_best
             found  == [offset |-> offset, m |-> m, d_avg |-> d_avg, label |-> label]
             within == WithinThreshold(d_avg, label)
         IN  /\ returned' = returned \cup
                    {[start |-> Consumed + offset, m |-> m, d_avg |-> d_avg,
                      label |-> label, within |-> within]}
             /\ IF within /\ match /\ label # info_best.label
                THEN /\ pc' = "emit"
                     /\ UNCHANGED <<offset, info_best, match>>
                ELSE /\ match' = (match \/ within)
                     /\ info_best' =
                            IF within /\ ~match THEN found
                            ELSE IF within /\ match /\ Improves(d_avg, info_best) THEN found
                                 ELSE info_best
                     /\ offset' = NextOffset(offset, match')
                     /\ pc' = IF match' /\ ScanTerminates(offset', info_best')
                              THEN "emit" ELSE "scan"
    /\ UNCHANGED <<data, cfg, data_rem, data_segments, labels>>
    /\ UNCHANGED <<maskVars, boundVars, calibVars, comboVars, searchVars>>

\* the inner loop ends on its condition
ScanExit ==
    /\ pc = "scan"
    /\ ~((Len(data_rem) - offset) > min_length)
    /\ pc' = "emit"
    /\ UNCHANGED <<data, cfg, data_rem, data_segments, labels, offset, info_best, match, returned>>
    /\ UNCHANGED <<maskVars, boundVars, calibVars, comboVars, searchVars>>

\* a faulty test: the prefix is emitted whatever the offset
HasPrefixMut(best) == TRUE

\* `if offset > 0:`
HasPrefix(best) == best.offset > 0

\* a faulty reset: the last point stays in the remainder
ExhaustedMut(rem) == SliceFrom(rem, Len(rem) - 1)

\* data_rem = np.zeros((0, data.shape[1]))
Exhausted(rem) == SliceFrom(rem, Len(rem))

\* data_rem[:offset, :]
UnmatchedPrefix(rem, best) == Slice(rem, 0, best.offset)

\* a faulty cut: one point too many
MatchedSpanMut(rem, best) == Slice(rem, best.offset, best.offset + best.m + 1)

\* data_rem[offset:(offset + m), :]
MatchedSpan(rem, best) == Slice(rem, best.offset, best.offset + best.m)

\* a faulty remainder: the offset of the match forgotten
RemainderAfterMut(rem, best) == SliceFrom(rem, best.m)

\* data_rem[(offset + m):, :]
RemainderAfter(rem, best) == SliceFrom(rem, best.offset + best.m)

\* `if match:` after the scan: the unmatched prefix, the match, the new remainder
EmitMatch ==
    /\ pc = "emit"
    /\ match
    /\ data_segments' =
          (IF HasPrefix(info_best)
           THEN Append(data_segments, UnmatchedPrefix(data_rem, info_best))
           ELSE data_segments)
          \o <<MatchedSpan(data_rem, info_best)>>
    /\ labels' =
          (IF HasPrefix(info_best) THEN Append(labels, 0) ELSE labels)
          \o <<info_best.label>>
    /\ data_rem' = RemainderAfter(data_rem, info_best)
    /\ pc' = "outer"
    /\ UNCHANGED <<data, cfg, offset, info_best, match, returned>>
    /\ UNCHANGED <<maskVars, boundVars, calibVars, comboVars, searchVars>>

\* `else:` no match in the whole remainder
EmitNoMatch ==
    /\ pc = "emit"
    /\ ~match
    /\ data_segments' = Append(data_segments, data_rem)
    /\ labels' = Append(labels, 0)
    /\ data_rem' = Exhausted(data_rem)
    /\ pc' = "tail"
    /\ UNCHANGED <<data, cfg, offset, info_best, match, returned>>
    /\ UNCHANGED <<maskVars, boundVars, calibVars, comboVars, searchVars>>

\* `if data_rem.shape[0] > 0:` and the return
Leftover ==
    /\ pc = "tail"
    /\ data_segments' = IF Len(data_rem) > 0 THEN Append(data_segments, data_rem)
                        ELSE data_segments
    /\ labels' = IF Len(data_rem) > 0 THEN Append(labels, 0) ELSE labels
    /\ pc' = "done"
    /\ UNCHANGED <<data, cfg, data_rem, offset, info_best, match, returned>>
    /\ UNCHANGED <<maskVars, boundVars, calibVars, comboVars, searchVars>>

(***************************************************************************)
(* A call of sakoe_chiba_mask.                                             *)
(***************************************************************************)
\* longest sequence a mask is built for
MaxSz == 5

\* the window fractions w in (0, 1] that are tried
Windows == {<<1, 4>>, <<1, 3>>, <<1, 2>>, <<3, 4>>, <<1, 1>>}

MaskInit ==
    /\ m_sz1 \in 1..MaxSz
    /\ m_sz2 \in 1..MaxSz
    /\ m_window \in Windows
    /\ m_mask = <<>>
    /\ m_pc = "call"

MaskIdle ==
    /\ m_sz1 = 1
    /\ m_sz2 = 1
    /\ m_window = <<1, 1>>
    /\ m_mask = <<>>
    /\ m_pc = "idle"

MaskCall ==
    /\ m_pc = "call"
    /\ m_mask' = sakoe_chiba_mask(m_sz1, m_sz2, m_window)
    /\ m_pc' = "done"
    /\ UNCHANGED <<m_sz1, m_sz2, m_window>>
    /\ UNCHANGED <<driverVars, boundVars, calibVars, comboVars, searchVars>>

(***************************************************************************)
(* An evaluation of the bounds and of the exact distance.                  *)
(***************************************************************************)
\* longest sequence the bounds are evaluated on
MaxBoundLen == 3

\* the points of dimension dim with coordinates 0..maxv
PointsOf(dim, maxv) == [1..dim -> 0..maxv]

\* the sequences of 1..n points of P
SeqsOf(P, n) == {FixSeq(t) : t \in UNION {[1..k -> P] : k \in 1..n}}

\* the candidate sequences and the templates by dimension
BoundSeqs(dim) ==
    IF dim = 1 THEN SeqsOf(PointsOf(1, 2), MaxBoundLen)
    ELSE SeqsOf(PointsOf(2, 1), MaxBoundLen - 1)

BoundTemplates(dim) ==
    IF dim = 1 THEN SeqsOf(PointsOf(1, 1), MaxBoundLen)
    ELSE SeqsOf(PointsOf(2, 1), MaxBoundLen - 2)

\* one group of one template, one group of two, two groups of one
TemplateCollections(T) ==
    {<< <<t>> >> : t \in T}
        \cup {<< <<t, u>> >> : t \in T, u \in T}
        \cup {<< <<t>>, <<u>> >> : t \in T, u \in T}

BoundInit ==
    /\ \E dim \in {1, 2} :
          /\ b_sequence \in BoundSeqs(dim)
          /\ b_templates \in TemplateCollections(BoundTemplates(dim))
    /\ b_window \in {None, <<1, 2>>}
    /\ b_vals = [lb1 |-> 0, lb2 |-> 0, d |-> 0, label |-> 0]
    /\ b_pc = "call"

BoundIdle ==
    /\ b_sequence = <<>>
    /\ b_templates = <<>>
    /\ b_window = None
    /\ b_vals = [lb1 |-> 0, lb2 |-> 0, d |-> 0, label |-> 0]
    /\ b_pc = "idle"

BoundCall ==
    /\ b_pc = "call"
    /\ \E r \in {average_distance_to_templates(b_sequence, b_templates, b_window)} :
          b_vals' = [lb1 |-> average_lb_distance_to_templates1(b_sequence, InfoOf(b_templates)),
                     lb2 |-> average_lb_distance_to_templates2(b_sequence, b_templates, InfoOf(b_templates)),
                     d |-> r[1], label |-> r[2]]
    /\ b_pc' = "done"
    /\ UNCHANGED <<b_sequence, b_templates, b_window>>
    /\ UNCHANGED <<driverVars, maskVars, calibVars, comboVars, searchVars>>

DriverIdle ==
    /\ data = <<>>
    /\ cfg = [length_stats |-> <<1, 1, 1>>]
    /\ data_rem = <<>>
    /\ data_segments = <<>>
    /\ labels = <<>>
    /\ offset = 0
    /\ info_best = [offset |-> 0, m |-> 0, d_avg |-> Inf, label |-> 0]
    /\ match = FALSE
    /\ pc = "idle"
    /\ returned = {}

(***************************************************************************)
(* A call of search_subsequence on a non-empty sequence, with the          *)
(* templates of TemplatesPeakStep, unnormalised and without a window.      *)
(***************************************************************************)
\* longest sequence searched
MaxSearchLen == 4

\* largest length_step
MaxLengthStep == 2

SearchSeqs == {FixSeq(Seq1(t)) : t \in SeqsUpTo({0, MaxValue}, MaxSearchLen)} \ {<<>>}

SearchInit ==
    /\ s_sequence \in SearchSeqs
    /\ s_min_length \in 1..MaxSearchLen
    /\ s_max_length \in 1..(MaxSearchLen + 1)
    /\ s_length_step \in 1..MaxLengthStep
    /\ s_v \in Orders(CandidateLengths(Len(s_sequence), s_min_length, s_max_length, s_length_step))
    /\ s_visited = <<>>
    /\ s_out = [len_best |-> 0, d_min |-> Inf, label_best |-> 0]
    /\ s_pc = "call"

SearchIdle ==
    /\ s_sequence = <<>>
    /\ s_min_length = 1
    /\ s_max_length = 1
    /\ s_length_step = 1
    /\ s_v = <<>>
    /\ s_visited = <<>>
    /\ s_out = [len_best |-> 0, d_min |-> Inf, label_best |-> 0]
    /\ s_pc = "idle"

\* search_subsequence(sequence, templates, templates_info, min_length, max_length, ...)
SearchCall ==
    /\ s_pc = "call"
    /\ \E mx \in {ClampMax(Len(s_sequence), s_max_length)} :
          s_visited' = LengthRange(MidLength(ClampMin(s_min_length, mx), mx), s_v)
    /\ s_out' = search_subsequence(s_sequence, TemplatesNorm(TemplatesPeakStep, FALSE),
                                   InfoOf(TemplatesNorm(TemplatesPeakStep, FALSE)),
                                   s_min_length, s_max_length, FALSE, None, TRUE,
                                   s_length_step, s_v)
    /\ s_pc' = "done"
    /\ UNCHANGED <<s_sequence, s_min_length, s_max_length, s_length_step, s_v>>
    /\ UNCHANGED <<driverVars, maskVars, boundVars, calibVars, comboVars>>

(***************************************************************************)
(* find_max_combinations (imported as num_templates_to_sample).  Its       *)
(* values n * comb(n - 1, i) + 1e-6 * i are doubles: the sum is rounded to *)
(* the last place of n * comb(n - 1, i).                                   *)
(***************************************************************************)
\* largest number of templates in one call of find_max_combinations
MaxTemplates == 32

\* k = None
NoK == 0 - 1

\* a * b / c for c dividing a * b, without forming a * b
MulDiv(a, b, c) == (a \div c) * b + ((a % c) * b) \div c

\* scipy.special.comb(n, k): for integers the product over i = 1..k of
\* (n - k + i) / i, with k replaced by n - k when k > n / 2
RECURSIVE comb(_, _)
comb(n, k) ==
    IF n < 0 \/ k < 0 \/ k > n THEN 0
    ELSE IF k = 0 THEN 1
    ELSE IF 2 * k > n THEN comb(n, n - k)
    ELSE MulDiv(comb(n, k - 1), n - k + 1, k)

\* faulty keys: range(0, n)
KRangeMut(n) == 0..(n - 1)

\* the keys of vals: range(1, n)
KRange(n) == 1..(n - 1)

\* floor(log2(x)) for x >= 1
RECURSIVE Log2(_)
Log2(x) == IF x < 2 THEN 0 ELSE 1 + Log2(x \div 2)

\* the binary exponent of the double n * c; above 2^10 it is taken from
\* floor(n * c / 2^10), since the product itself can pass 2^31
ProductExponent(n, c) ==
    LET w == n * (c \div 2^10) + (n * (c % 2^10)) \div 2^10
    IN  IF w = 0 THEN Log2(n * c) ELSE 10 + Log2(w)

\* round(a / b) of IEEE addition: to nearest, halves to even
RoundDiv(a, b) ==
    LET q == a \div b
        r == a % b
    IN  IF 2 * r > b \/ (2 * r = b /\ q % 2 = 1) THEN q + 1 ELSE q

\* what 1e-6 * i adds to the double n * c of exponent e, in units of its
\* last place 2^(e - 52).  Up to e = 32 the unit is below 1e-6 and the sums
\* keep the order of i; above, round(i * 2^(52 - e) / 10^6) units are added.
TieBreak(n, c, i) ==
    LET e == ProductExponent(n, c)
    IN  IF e <= 32 THEN i ELSE RoundDiv(i * 2^(52 - e), 10^6)

\* vals[i] = n * comb(n - 1, i) + 1e-6 * i as <<comb(n - 1, i), units added>>;
\* the factor n > 0 is common to all keys
CombVal(n, i) == <<comb(n - 1, i), TieBreak(n, comb(n - 1, i), i)>>

\* vals[i] < vals[k]
ValLess(a, b) == a[1] < b[1] \/ (a[1] = b[1] /\ a[2] < b[2])

\* max() meeting the key i after the keys before it: a later key replaces
\* the best one only with a larger value
Better(n, best, i) == IF ValLess(CombVal(n, best), CombVal(n, i)) THEN i ELSE best

\* max(vals, key=vals.get) over the keys up to i
RECURSIVE ArgMaxUpTo(_, _)
ArgMaxUpTo(n, i) ==
    IF i - 1 \notin KRange(n) THEN i
    ELSE CHOOSE r \in {Better(n, best, i) : best \in {ArgMaxUpTo(n, i - 1)}} : TRUE

\* the last key of vals
LastKey(n) == CHOOSE k \in KRange(n) : \A i \in KRange(n) : i <= k

\* max(vals, key=vals.get): the first key, in the order range(1, n), that
\* holds the largest value
ArgMaxK(n) == ArgMaxUpTo(n, LastKey(n))

\* int(np.floor(vals[k])) = n * comb(n - 1, k), as <<high, low>> with value
\* high * 2^15 + low
Product(n, c) ==
    LET lo == n * (c % 2^15)
    IN  <<n * (c \div 2^15) + lo \div 2^15, lo % 2^15>>

\* ok is FALSE when max() is given the empty vals and raises ValueError
find_max_combinations(n, k) ==
    IF k \in KRange(n) THEN [ok |-> TRUE, k |-> k, ns |-> Product(n, comb(n - 1, k))]
    ELSE IF KRange(n) = {} THEN [ok |-> FALSE, k |-> 0, ns |-> <<0, 0>>]
    ELSE [ok |-> TRUE, k |-> ArgMaxK(n), ns |-> Product(n, comb(n - 1, ArgMaxK(n)))]

ComboInit ==
    /\ f_n \in 0..MaxTemplates
    /\ f_k \in {NoK} \cup (0..MaxTemplates)
    /\ f_out = [ok |-> FALSE, k |-> 0, ns |-> <<0, 0>>]
    /\ f_pc = "call"

ComboIdle ==
    /\ f_n = 0
    /\ f_k = NoK
    /\ f_out = [ok |-> FALSE, k |-> 0, ns |-> <<0, 0>>]
    /\ f_pc = "idle"

\* find_max_combinations(n, k) returns (k, v)
FindMaxReturns ==
    /\ f_pc = "call"
    /\ \E r \in {find_max_combinations(f_n, f_k)} :
          /\ r.ok
          /\ f_out' = r
    /\ f_pc' = "done"
    /\ UNCHANGED <<f_n, f_k>>
    /\ UNCHANGED <<driverVars, maskVars, boundVars, calibVars, searchVars>>

\* find_max_combinations(n, k) raises ValueError from max() of no values
FindMaxRaises ==
    /\ f_pc = "call"
    /\ ~find_max_combinations(f_n, f_k).ok
    /\ f_pc' = "raised"
    /\ UNCHANGED <<f_n, f_k, f_out>>
    /\ UNCHANGED <<driverVars, maskVars, boundVars, calibVars, searchVars>>

(***************************************************************************)
(* stratified_sample: the index arrays it can return, one for each         *)
(* outcome of its random permutations.  Indices are 0-based.               *)
(***************************************************************************)
\* np.unique(labels)
LabelSet(labels_group) ==
    LET S == {labels_group[j] : j \in 1..Len(labels_group)}
    IN  Sorted(CHOOSE f \in [1..Cardinality(S) -> S] :
                   \A a, b \in 1..Cardinality(S) : f[a] = f[b] => a = b)

\* np.where(labels == lab)[0]
IndicesOf(labels_group, lab) == {j \in 0..(Len(labels_group) - 1) : labels_group[j + 1] = lab}

\* index_labels: one permutation of the indices of each label
RECURSIVE IndexLabelChoices(_, _)
IndexLabelChoices(labels_group, label_set) ==
    IF label_set = <<>> THEN {<<>>}
    ELSE {<<v>> \o rest : v \in Orders(IndicesOf(labels_group, Head(label_set))),
                          rest \in IndexLabelChoices(labels_group, Tail(label_set))}

\* arr = [v[i] for v in index_labels if i < v.shape[0]]
RoundOf(index_labels, i) ==
    LET f == SelectSeq(index_labels, LAMBDA v : i < Len(v))
    IN  Eager([x \in 1..Len(f) |-> f[x][i + 1]])

\* the loop `while m < k`
RECURSIVE Interleave(_, _, _, _)
Interleave(index_labels, i, index, k) ==
    IF Len(index) >= k THEN index
    ELSE Interleave(index_labels, i + 1, index \o RoundOf(index_labels, i), k)

stratified_sample(labels_group, n, k) ==
    IF k < n
    THEN {SubSeq(Interleave(il, 0, <<>>, k), 1, k) :
              il \in IndexLabelChoices(labels_group, LabelSet(labels_group))}
    ELSE Orders(0..(n - 1))

(***************************************************************************)
(* find_distance_thresholds: the leave-one-out tasks of one group.         *)
(***************************************************************************)
PrependAll(x, L) == Eager([i \in 1..Len(L) |-> <<x>> \o L[i]])

\* itertools.combinations(range(lo, hi + 1), k), in its order
RECURSIVE Combinations(_, _, _)
Combinations(lo, hi, k) ==
    IF k = 0 THEN << <<>> >>
    ELSE IF hi - lo + 1 < k THEN <<>>
    ELSE PrependAll(lo, Combinations(lo + 1, hi, k - 1)) \o Combinations(lo + 1, hi, k)

\* a = int(np.ceil(float(max_num_samples) / n))
SampleCap(max_num_samples, n) == CeilDiv(max_num_samples, n)

\* the injections of 1..a into 1..len: np.random.permutation(len)[:a]
Arrangements(len, a) ==
    {p \in [1..a -> 1..len] : \A x, y \in 1..a : p[x] = p[y] => x = y}

\* the values comb_list can have after the random subsampling
CombLists(n, k, max_num_samples) ==
    LET comb_list == Combinations(0, n - 2, k)
        a         == SampleCap(max_num_samples, n)
    IN  IF Len(comb_list) > a
        THEN {Eager([j \in 1..a |-> comb_list[p[j]]]) : p \in Arrangements(Len(comb_list), a)}
        ELSE {comb_list}

\* ind[t] with ind = [jj for jj in range(n) if jj != j]
IndExcluding(j, t) == IF t < j THEN t ELSE t + 1

\* [j] + [ind[t] for t in tup]
TaskOf(j, tup) == <<j>> \o Eager([x \in 1..Len(tup) |-> IndExcluding(j, tup[x])])

\* index_list: for every held-out j, one task for each tuple of comb_list
IndexList(n, comb_list) ==
    Eager([p \in 1..(n * Len(comb_list)) |->
        TaskOf((p - 1) \div Len(comb_list), comb_list[((p - 1) % Len(comb_list)) + 1])])

helper_average_dtw_distance(sequences, warping_window, indices) ==
    average_distance_to_templates(
        sequences[indices[1] + 1],
        << Eager([x \in 1..(Len(indices) - 1) |-> sequences[indices[x + 1] + 1]]) >>,
        warping_window)[1]

\* the value of every task, in the order of index_list
TaskValues(sequences, warping_window, index_list) ==
    Eager([t \in 1..Len(index_list) |->
        helper_average_dtw_distance(sequences, warping_window, index_list[t])])

\* th = max(v[4], v[3] + 1.5 * (v[3] - v[1])) of a non-empty distribution
IqrThreshold(distances) ==
    LET v1 == Percentile(distances, 25)
        v3 == Percentile(distances, 75)
        v4 == Percentile(distances, 100)
    IN  Max(v4, v3 + (3 * (v3 - v1)) \div 2)

(***************************************************************************)
(* The worker pool.  map_async hands the tasks to the num_proc workers in  *)
(* submission order (in chunks of one task for up to 4 * num_proc tasks);  *)
(* its callback distances.extend receives the whole list of results, in    *)
(* submission order, once every task has succeeded, and is not called when *)
(* a task raised: the AsyncResult that holds the exception is discarded.   *)
(***************************************************************************)
\* a faulty gathering: a callback for each result appends what succeeded
GatheredMut(status, values) ==
    LET ok == SelectSeq(Eager([t \in 1..Len(status) |-> t]), LAMBDA t : status[t] = "ok")
    IN  Eager([x \in 1..Len(ok) |-> values[ok[x]]])

\* what distances holds when pool_obj.join() returns
Gathered(status, values) ==
    IF \A t \in 1..Len(status) : status[t] = "ok" THEN values ELSE <<>>

(***************************************************************************)
(* A call of preprocess_templates.                                         *)
(***************************************************************************)
\* most action groups in a call
MaxGroups == 2

\* most templates in a group
MaxGroupSize == 3

\* most tasks handed to a worker pool for one group
MaxPoolTasks == 6

\* max_num_samples as find_distance_thresholds defaults it
DefaultMaxNumSamples == 10000

\* the j-th raw template of group g: 2 to 4 points, never constant
CalibTemplate(g, j) ==
    Seq1(<<0, 1 + ((g + j) % 2)>> \o [i \in 1..(j % 3) |-> (i + g) % 3])

\* the raw templates for the group sizes given
CalibTemplates(sizes) ==
    Eager([g \in 1..Len(sizes) |-> Eager([j \in 1..sizes[g] |-> CalibTemplate(g, j)])])

\* template_labels: (label, category), two categories alternating
CalibLabels(sizes) ==
    Eager([g \in 1..Len(sizes) |-> Eager([j \in 1..sizes[g] |-> <<g, j % 2>>])])

\* the number of tasks a group of n templates gives rise to
NumTasks(n, max_num_samples) ==
    IF find_max_combinations(n, NoK).ok
    THEN n * Min(comb(n - 1, find_max_combinations(n, NoK).k), SampleCap(max_num_samples, n))
    ELSE 0

\* the calls modelled, as (group sizes, normalize, max_num_samples,
\* cpu_count): normalize at its default, groups of at most MaxGroupSize
\* templates and, where a worker pool is used, of at most MaxPoolTasks tasks
CalibCalls ==
    {t \in (UNION {[1..g -> 0..MaxGroupSize] : g \in 1..MaxGroups})
                \X {TRUE} \X {2, DefaultMaxNumSamples} \X {1, 3} :
        t[4] = 1 \/ \A g \in 1..Len(t[1]) : NumTasks(t[1][g], t[3]) <= MaxPoolTasks}

CalibInputs ==
    {[templates |-> CalibTemplates(t[1]),
      template_labels |-> CalibLabels(t[1]),
      normalize |-> t[2],
      warping_window |-> None,
      alpha |-> Alpha,
      max_num_samples |-> t[3],
      cpu_count |-> t[4]] : t \in CalibCalls}

\* num_proc = max(1, multiprocessing.cpu_count() - 1)
num_proc == Max(1, c_in.cpu_count - 1)

CalibInit ==
    /\ c_in \in CalibInputs
    /\ c_templates = <<>>
    /\ c_length_stats = <<>>
    /\ c_i = 1
    /\ c_num_templates = <<>>
    /\ c_selected = <<>>
    /\ c_index_list = <<>>
    /\ c_status = <<>>
    /\ c_distances = <<>>
    /\ c_thresholds = <<>>
    /\ c_pc = "normalize"
    /\ c_error = "none"
    /\ c_failed = {}

CalibIdle ==
    /\ c_in = [templates |-> <<>>]
    /\ c_templates = <<>>
    /\ c_length_stats = <<>>
    /\ c_i = 1
    /\ c_num_templates = <<>>
    /\ c_selected = <<>>
    /\ c_index_list = <<>>
    /\ c_status = <<>>
    /\ c_distances = <<>>
    /\ c_thresholds = <<>>
    /\ c_pc = "idle"
    /\ c_error = "none"
    /\ c_failed = {}

\* the call ends with the exception err
Raise(err) ==
    /\ c_pc' = "error"
    /\ c_error' = err

HasEmptyGroup(templates) == \E g \in 1..Len(templates) : templates[g] = <<>>

\* normalize_templates on groups that all hold a template
NormalizeTemplates ==
    /\ c_pc = "normalize"
    /\ ~HasEmptyGroup(c_in.templates)
    /\ c_templates' = TemplatesNorm(c_in.templates, c_in.normalize)
    /\ c_length_stats' = LengthStats(c_in.templates, c_in.alpha)
    /\ c_pc' = "group"
    /\ UNCHANGED <<c_in, c_i, c_num_templates, c_selected, c_index_list, c_status, c_distances, c_thresholds, c_error, c_failed>>
    /\ UNCHANGED <<driverVars, maskVars, boundVars, comboVars, searchVars>>

\* normalize_templates on an empty group: np.percentile(len_arr, ...) of
\* the empty len_arr raises IndexError
NormalizeFails ==
    /\ c_pc = "normalize"
    /\ HasEmptyGroup(c_in.templates)
    /\ Raise("IndexError")
    /\ UNCHANGED <<c_in, c_templates, c_length_stats, c_i, c_num_templates, c_selected, c_index_list, c_status, c_distances, c_thresholds, c_failed>>
    /\ UNCHANGED <<driverVars, maskVars, boundVars, comboVars, searchVars>>

\* (k, ns) for n templates: the memo, else num_templates_to_sample(n)
SampleSize(n) ==
    IF n \in DOMAIN c_num_templates THEN c_num_templates[n]
    ELSE find_max_combinations(n, NoK)

\* the group loop up to the dispatch of the tasks
GroupStart ==
    /\ c_pc = "group"
    /\ \E n \in {Len(c_templates[c_i])} : \E ks \in {SampleSize(n)} :
          /\ ks.ok
          /\ c_num_templates' = (n :> ks) @@ c_num_templates
          /\ \E ind \in stratified_sample(
                     Eager([j \in 1..n |-> c_in.template_labels[c_i][j][2]]), n, ks.k) :
                c_selected' = Append(c_selected, ind)
          /\ \E comb_list \in CombLists(n, ks.k, c_in.max_num_samples) :
                /\ c_index_list' = IndexList(n, comb_list)
                /\ c_status' = Eager([t \in 1..(n * Len(comb_list)) |-> "queued"])
    /\ c_distances' = <<>>
    /\ c_pc' = IF num_proc > 1 THEN "pool" ELSE "loop"
    /\ UNCHANGED <<c_in, c_templates, c_length_stats, c_i, c_thresholds, c_error, c_failed>>
    /\ UNCHANGED <<driverVars, maskVars, boundVars, comboVars, searchVars>>

\* num_templates_to_sample(n) raises ValueError
GroupFails ==
    /\ c_pc = "group"
    /\ ~SampleSize(Len(c_templates[c_i])).ok
    /\ Raise("ValueError")
    /\ UNCHANGED <<c_in, c_templates, c_length_stats, c_i, c_num_templates, c_selected, c_index_list, c_status, c_distances, c_thresholds, c_failed>>
    /\ UNCHANGED <<driverVars, maskVars, boundVars, comboVars, searchVars>>

\* num_proc = 1: the loop that computes every distance in turn
SequentialDistances ==
    /\ c_pc = "loop"
    /\ c_distances' = TaskValues(c_templates[c_i], c_in.warping_window, c_index_list)
    /\ c_status' = Eager([t \in 1..Len(c_status) |-> "ok"])
    /\ c_pc' = "threshold"
    /\ UNCHANGED <<c_in, c_templates, c_length_stats, c_i, c_num_templates, c_selected, c_index_list, c_thresholds, c_error, c_failed>>
    /\ UNCHANGED <<driverVars, maskVars, boundVars, comboVars, searchVars>>

\* num_proc = 1: a distance computation raises and the exception leaves
\* the call
SequentialFails ==
    /\ c_pc = "loop"
    /\ \E t \in 1..Len(c_status) :
          c_status' = Eager([u \in 1..Len(c_status) |->
              IF u < t THEN "ok" ELSE IF u = t THEN "failed" ELSE "queued"])
    /\ c_failed' = c_failed \cup {c_i}
    /\ Raise("TaskError")
    /\ UNCHANGED <<c_in, c_templates, c_length_stats, c_i, c_num_templates, c_selected, c_index_list, c_distances, c_thresholds>>
    /\ UNCHANGED <<driverVars, maskVars, boundVars, comboVars, searchVars>>

Running(status) == {t \in 1..Len(status) : status[t] = "running"}

Queued(status) == {t \in 1..Len(status) : status[t] = "queued"}

\* a free worker takes the next task of the queue
PoolTake ==
    /\ c_pc = "pool"
    /\ Queued(c_status) # {}
    /\ Cardinality(Running(c_status)) < num_proc
    /\ \E t \in Queued(c_status) :
          /\ \A u \in Queued(c_status) : t <= u
          /\ c_status' = [c_status EXCEPT ![t] = "running"]
    /\ UNCHANGED <<c_in, c_templates, c_length_stats, c_i, c_num_templates, c_selected, c_index_list, c_distances, c_thresholds, c_pc, c_error, c_failed>>
    /\ UNCHANGED <<driverVars, maskVars, boundVars, comboVars, searchVars>>

\* a worker returns the distance of its task
PoolTaskDone ==
    /\ c_pc = "pool"
    /\ \E t \in Running(c_status) : c_status' = [c_status EXCEPT ![t] = "ok"]
    /\ UNCHANGED <<c_in, c_templates, c_length_stats, c_i, c_num_templates, c_selected, c_index_list, c_distances, c_thresholds, c_pc, c_error, c_failed>>
    /\ UNCHANGED <<driverVars, maskVars, boundVars, comboVars, searchVars>>

\* the task of a worker raises
PoolTaskFails ==
    /\ c_pc = "pool"
    /\ \E t \in Running(c_status) : c_status' = [c_status EXCEPT ![t] = "failed"]
    /\ c_failed' = c_failed \cup {c_i}
    /\ UNCHANGED <<c_in, c_templates, c_length_stats, c_i, c_num_templates, c_selected, c_index_list, c_distances, c_thresholds, c_pc, c_error>>
    /\ UNCHANGED <<driverVars, maskVars, boundVars, comboVars, searchVars>>

\* pool_obj.join() returns: no task is queued or running
PoolJoin ==
    /\ c_pc = "pool"
    /\ Queued(c_status) = {}
    /\ Running(c_status) = {}
    /\ c_distances' = Gathered(c_status,
           TaskValues(c_templates[c_i], c_in.warping_window, c_index_list))
    /\ c_pc' = "threshold"
    /\ UNCHANGED <<c_in, c_templates, c_length_stats, c_i, c_num_templates, c_selected, c_index_list, c_status, c_thresholds, c_error, c_failed>>
    /\ UNCHANGED <<driverVars, maskVars, boundVars, comboVars, searchVars>>

\* the threshold of the group; after the last group the call returns
AppendThreshold ==
    /\ c_pc = "threshold"
    /\ c_distances # <<>>
    /\ c_thresholds' = Append(c_thresholds, IqrThreshold(c_distances))
    /\ c_i' = c_i + 1
    /\ c_pc' = IF c_i = Len(c_templates) THEN "done" ELSE "group"
    /\ UNCHANGED <<c_in, c_templates, c_length_stats, c_num_templates, c_selected, c_index_list, c_status, c_distances, c_error, c_failed>>
    /\ UNCHANGED <<driverVars, maskVars, boundVars, comboVars, searchVars>>

\* np.percentile of the empty distances raises IndexError
ThresholdFails ==
    /\ c_pc = "threshold"
    /\ c_distances = <<>>
    /\ Raise("IndexError")
    /\ UNCHANGED <<c_in, c_templates, c_length_stats, c_i, c_num_templates, c_selected, c_index_list, c_status, c_distances, c_thresholds, c_failed>>
    /\ UNCHANGED <<driverVars, maskVars, boundVars, comboVars, searchVars>>

(***************************************************************************)
(* The specifications.  Each runs one part of the program and leaves the   *)
(* variables of the other parts idle.                                      *)
(***************************************************************************)
\* segment_repeat_sequences
Init == DriverInit /\ MaskIdle /\ BoundIdle /\ CalibIdle /\ ComboIdle /\ SearchIdle

Next ==
    \/ OuterEnter
    \/ OuterExit
    \/ ScanStep
    \/ ScanExit
    \/ EmitMatch
    \/ EmitNoMatch
    \/ Leftover

Spec == Init /\ [][Next]_vars

\* sakoe_chiba_mask
MaskSpecInit == DriverIdle /\ MaskInit /\ BoundIdle /\ CalibIdle /\ ComboIdle /\ SearchIdle

MaskNext == MaskCall

SpecMask == MaskSpecInit /\ [][MaskNext]_vars

\* the lower bounds against the exact distance
BoundSpecInit == DriverIdle /\ MaskIdle /\ BoundInit /\ CalibIdle /\ ComboIdle /\ SearchIdle

BoundNext == BoundCall

SpecBounds == BoundSpecInit /\ [][BoundNext]_vars

\* preprocess_templates
CalibSpecInit == DriverIdle /\ MaskIdle /\ BoundIdle /\ CalibInit /\ ComboIdle /\ SearchIdle

CalibNext ==
    \/ NormalizeTemplates
    \/ NormalizeFails
    \/ GroupStart
    \/ GroupFails
    \/ SequentialDistances
    \/ SequentialFails
    \/ PoolTake
    \/ PoolTaskDone
    \/ PoolTaskFails
    \/ PoolJoin
    \/ AppendThreshold
    \/ ThresholdFails

SpecCalib == CalibSpecInit /\ [][CalibNext]_vars

\* find_max_combinations
ComboSpecInit == DriverIdle /\ MaskIdle /\ BoundIdle /\ CalibIdle /\ ComboInit /\ SearchIdle

ComboNext ==
    \/ FindMaxReturns
    \/ FindMaxRaises

SpecCombos == ComboSpecInit /\ [][ComboNext]_vars

\* search_subsequence
SearchSpecInit == DriverIdle /\ MaskIdle /\ BoundIdle /\ CalibIdle /\ ComboIdle /\ SearchInit

SearchNext == SearchCall

SpecSearch == SearchSpecInit /\ [][SearchNext]_vars

(***************************************************************************)
(* Properties of the driver.                                               *)
(***************************************************************************)
RECURSIVE Concat(_)
Concat(segs) == IF segs = <<>> THEN <<>> ELSE Head(segs) \o Concat(Tail(segs))

\* the index in data (0-based) at which segment k starts
RECURSIVE SegStart(_)
SegStart(k) == IF k = 1 THEN 0 ELSE SegStart(k - 1) + Len(data_segments[k - 1])

NumActions == Len(cfg.templates_norm)

\* the average distance to every group of the candidate a search returned,
\* recomputed from the input series
ValsOf(r) ==
    GroupVals(SequenceNorm(SliceFrom(data, r.start), r.m, cfg.normalize),
              cfg.templates_norm, cfg.warping_window)

\* the first group whose average is the least
FirstArgMin(vals) == CHOOSE i \in 1..Len(vals) :
    /\ \A j \in 1..Len(vals) : vals[i] <= vals[j]
    /\ \A j \in 1..(i - 1) : vals[j] > vals[i]

\* C1: while the driver runs, the segments emitted so far followed by the
\* remainder are the input series; on return the segments alone are the input
\* series; and a match about to be cut lies wholly inside the remainder.
C1_Reconstruction ==
    /\ pc # "done" => Concat(data_segments) \o data_rem = data
    /\ pc = "done" => Concat(data_segments) = data
    /\ (pc = "emit" /\ match) =>
          /\ info_best.m >= 1
          /\ info_best.offset + info_best.m <= Len(data_rem)

\* a run that cut an unmatched prefix, a match and a leftover
C1_Witness ==
    /\ pc = "done"
    /\ Len(data_segments) >= 3
    /\ labels[1] = 0
    /\ labels[2] # 0

\* C2: when no search returned a distance within the threshold of the label
\* it returned, the output is the whole input as one segment with label 0.
C2_UnmatchedInput ==
    (pc = "done" /\ data # <<>> /\ \A r \in returned : r.d_avg > ThresholdOf(r.label))
        => (data_segments = <<data>> /\ labels = <<0>>)

\* an input that was searched at several offsets and never matched
C2_Witness ==
    /\ pc = "done"
    /\ Cardinality(returned) >= 2
    /\ \A r \in returned : r.d_avg > ThresholdOf(r.label)
    /\ labels = <<0>>

\* C3 (as claimed): the call does not return normally on an empty input.
C3_EmptyInputFails == data = <<>> => pc # "done"

\* C4 (as claimed): a candidate is rejected only if its average distance to
\* every group exceeds that group's own threshold.
C4_RejectedOnlyIfAllExceed ==
    \A r \in returned :
        (\E i \in 1..NumActions : ValsOf(r)[i] <= cfg.distance_thresholds[i])
            => r.within

\* C4 (amended): a candidate is accepted exactly when the least of its group
\* averages is within the threshold of the first group attaining it, which is
\* the distance and the label the search returned.
C4_AcceptedIffNearestWithin ==
    \A r \in returned :
        LET vals == ValsOf(r)
            i == FirstArgMin(vals)
        IN  /\ r.label = i
            /\ r.d_avg = vals[i]
            /\ r.within <=> (vals[i] <= cfg.distance_thresholds[i])

\* a candidate rejected although another group's threshold admits it
C4_Witness ==
    \E r \in returned :
        /\ ~r.within
        /\ \E i \in 1..NumActions : ValsOf(r)[i] <= cfg.distance_thresholds[i]

\* C5: every segment with a non-zero label L has L in 1..K and is a span for
\* which a search returned L with a distance within threshold L; there are as
\* many labels as segments.
C5_LabelledSegmentsWereReturned ==
    /\ Len(labels) = Len(data_segments)
    /\ \A k \in 1..Len(labels) :
          /\ labels[k] \in 0..NumActions
          /\ labels[k] # 0 =>
                \E r \in returned :
                    /\ r.start = SegStart(k)
                    /\ r.m = Len(data_segments[k])
                    /\ r.label = labels[k]
                    /\ r.d_avg <= cfg.distance_thresholds[labels[k]]

\* a finished run with two labelled segments of different actions
C5_Witness ==
    /\ pc = "done"
    /\ \E k, l \in 1..Len(labels) : labels[k] = 1 /\ labels[l] = 2

VisitedLengths(N) ==
    LET mx == ClampMax(N, max_length)
    IN  {MidLength(ClampMin(min_length, mx), mx)}
            \cup CandidateLengths(N, min_length, max_length, cfg.length_step)

\* every template has at least two points
TemplatesHaveTwoPoints ==
    \A i \in 1..NumActions : \A j \in 1..Len(cfg.templates_norm[i]) :
        Len(cfg.templates_norm[i][j]) >= 2

C6_LowerBoundsSound ==
    b_pc = "done" => (b_vals.lb1 <= b_vals.d /\ b_vals.lb2 <= b_vals.d)

\* the bounds are at most the distance whenever the candidate or every
\* template has at least two points
C6_SoundBeyondSinglePoints ==
    (/\ b_pc = "done"
     /\ \/ Len(b_sequence) >= 2
        \/ \A i \in 1..Len(b_templates) : \A j \in 1..Len(b_templates[i]) :
               Len(b_templates[i][j]) >= 2)
        => (b_vals.lb1 <= b_vals.d /\ b_vals.lb2 <= b_vals.d)

\* the half-width the mask is claimed to have
ClaimedHalfWidth ==
    LET big == IF m_sz1 >= m_sz2 THEN m_sz1 ELSE m_sz2
        gap == IF m_sz1 >= m_sz2 THEN m_sz1 - m_sz2 ELSE m_sz2 - m_sz1
        cw  == CHOOSE c \in 0..big : c * m_window[2] >= m_window[1] * big
                                      /\ (c - 1) * m_window[2] < m_window[1] * big
    IN  IF cw >= gap + 1 THEN cw ELSE gap + 1

\* whether cell (i, j) is joined to (0, 0) by zero cells through right, down
\* and diagonal moves
RECURSIVE ZeroPathTo(_, _)
ZeroPathTo(i, j) ==
    /\ i >= 0 /\ j >= 0
    /\ m_mask[i][j] = 0
    /\ \/ (i = 0 /\ j = 0)
       \/ ZeroPathTo(i - 1, j - 1)
       \/ ZeroPathTo(i - 1, j)
       \/ ZeroPathTo(i, j - 1)

\* C7: the mask has shape sz1 x sz2, cell (i, j) is 0 exactly when
\* |i - j| <= W and +inf otherwise, and a path of zero cells joins (0, 0) to
\* (sz1 - 1, sz2 - 1).
C7_MaskValidity ==
    m_pc = "done" =>
        /\ DOMAIN m_mask = 0..(m_sz1 - 1)
        /\ \A i \in 0..(m_sz1 - 1) :
              /\ DOMAIN m_mask[i] = 0..(m_sz2 - 1)
              /\ \A j \in 0..(m_sz2 - 1) :
                    m_mask[i][j] = (IF i - j <= ClaimedHalfWidth /\ j - i <= ClaimedHalfWidth
                                    THEN 0 ELSE Inf)
        /\ ZeroPathTo(m_sz1 - 1, m_sz2 - 1)

\* a mask of each branch with forbidden cells
C7_Witness ==
    /\ m_pc = "done"
    /\ m_sz1 > m_sz2
    /\ m_sz2 > 1
    /\ \E i \in 0..(m_sz1 - 1) : m_mask[i][0] = Inf


(***************************************************************************)
(* Properties of preprocess_templates.                                     *)
(***************************************************************************)
\* the size of group g as the call was given it
GroupSize(g) == Len(c_in.templates[g])

SmallGroups == {g \in 1..Len(c_in.templates) : GroupSize(g) < 2}

\* C9: when a group has fewer than two templates the call never returns a
\* result: it produces no threshold and selects no template for that
\* group, and once it has come to that group it can only end in the error.
C9_SmallGroupFailsCalibration ==
    \A g \in SmallGroups :
        /\ c_pc # "done"
        /\ Len(c_thresholds) < g
        /\ Len(c_selected) < g
        /\ c_i <= g
        /\ c_i = g => c_pc \in {"normalize", "group", "error"}

\* a first group was calibrated and the call then failed on a second group
\* of a single template
C9_Witness ==
    /\ c_pc = "error"
    /\ c_error = "ValueError"
    /\ c_i = 2
    /\ Len(c_thresholds) = 1
    /\ GroupSize(2) = 1

\* C10: with the worker pool, a group one of whose tasks failed gets no
\* threshold and the call does not return; the distribution a threshold is
\* computed from is empty or holds the value of every submitted task, one
\* for each task in submission order, and only the full one yields a
\* threshold.
C10_FailedTaskFailsCalibration ==
    /\ \A g \in c_failed : c_pc # "done" /\ Len(c_thresholds) < g
    /\ c_pc = "threshold" =>
          \/ c_distances = <<>>
          \/ /\ c_failed = {}
             /\ c_distances = TaskValues(c_templates[c_i], c_in.warping_window, c_index_list)
    /\ c_pc \in {"group", "done"} /\ c_thresholds # <<>> =>
          /\ Len(c_distances) = Len(c_index_list)
          /\ c_thresholds[Len(c_thresholds)] = IqrThreshold(c_distances)

\* the pool ran, one task failed while others had returned their distance,
\* and the call ended in the error
C10_Witness ==
    /\ c_pc = "error"
    /\ c_error = "IndexError"
    /\ num_proc > 1
    /\ c_i \in c_failed
    /\ \E t \in 1..Len(c_status) : c_status[t] = "ok"
    /\ \E t \in 1..Len(c_status) : c_status[t] = "failed"
    /\ c_thresholds # <<>>

\* C11 (as claimed): the samples computed for a group, over all its
\* leave-one-out folds, never exceed max_num_samples.
C11_SamplesWithinCap ==
    /\ Len(c_index_list) <= c_in.max_num_samples
    /\ Len(c_distances) <= c_in.max_num_samples

\* what the code ensures: each fold keeps at most ceil(max_num_samples / n)
\* subsets, so a group computes fewer than max_num_samples + n samples
C11_SamplesWithinCapPerFold ==
    c_pc \in {"pool", "loop", "threshold"} =>
        LET n == Len(c_templates[c_i])
        IN  /\ Len(c_index_list) <= n * SampleCap(c_in.max_num_samples, n)
            /\ Len(c_index_list) < c_in.max_num_samples + n
            /\ Len(c_distances) <= Len(c_index_list)

(***************************************************************************)
(* Properties of find_max_combinations.                                    *)
(***************************************************************************)
RECURSIVE Factorial(_)
Factorial(n) == IF n <= 1 THEN 1 ELSE n * Factorial(n - 1)

\* k, v is the claimed answer for n: 1 <= k < n, n * C(n - 1, k) is largest,
\* the largest such k is taken, and v is that product
MaximisesTowardLargerK(n, k, v) ==
    /\ 1 <= k
    /\ k < n
    /\ \A i \in 1..(n - 1) :
          /\ comb(n - 1, i) <= comb(n - 1, k)
          /\ comb(n - 1, i) = comb(n - 1, k) => i <= k
    /\ v = Product(n, comb(n - 1, k))
    /\ n <= 13 => /\ v[1] = 0
                  /\ v[2] % n = 0
                  /\ (v[2] \div n) * Factorial(k) * Factorial(n - 1 - k) = Factorial(n - 1)

\* the examples n = 4, 7, 13
ExamplesOfMaxCombinations(n, k, v) ==
    /\ n = 4 => k = 2 /\ v = <<0, 12>>
    /\ n = 7 => k = 3 /\ v = <<0, 140>>
    /\ n = 13 => k = 6 /\ v = <<0, 12012>>

\* C12 (as claimed): for every n >= 2, find_max_combinations(n) returns k
\* with 1 <= k < n that maximises n * C(n - 1, k), the larger k among equal
\* values, and the count n * C(n - 1, k).
C12_MaxCombinationsLargerK ==
    f_k = NoK /\ f_n >= 2 =>
        /\ f_pc # "raised"
        /\ f_pc = "done" =>
              /\ MaximisesTowardLargerK(f_n, f_out.k, f_out.ns)
              /\ ExamplesOfMaxCombinations(f_n, f_out.k, f_out.ns)

\* where it holds: while the values stay below 2^33, the last place of the
\* double is finer than 1e-6
C12_MaxCombinationsBelowTwoTo33 ==
    f_k = NoK /\ f_n >= 2 /\ ProductExponent(f_n, comb(f_n - 1, f_n \div 2)) <= 32 =>
        /\ f_pc # "raised"
        /\ f_pc = "done" =>
              /\ MaximisesTowardLargerK(f_n, f_out.k, f_out.ns)
              /\ ExamplesOfMaxCombinations(f_n, f_out.k, f_out.ns)

\* n = 32: both 32 * C(31, 15) and 32 * C(31, 16) round to the same double
\* and max() keeps the first key
C12_SmallerKAtThirtyTwo ==
    f_k = NoK /\ f_n = 32 /\ f_pc = "done" => f_out.k = 15

\* a given k in range(1, n) is returned with its own count
C12_GivenKReturned ==
    f_pc = "done" /\ f_k \in 1..(f_n - 1) =>
        f_out.k = f_k /\ f_out.ns = Product(f_n, comb(f_n - 1, f_k))

(***************************************************************************)
(* Properties of the inner scan of the driver.                             *)
(***************************************************************************)
\* the search at the current offset, in visiting order v, is a match
MatchAt(v) ==
    WithinThreshold(Search(SliceFrom(data_rem, offset), v).d_min,
                    Search(SliceFrom(data_rem, offset), v).label_best)

\* the record of a match found by the search at the current offset
IsMatchHere(best) ==
    /\ best.offset = offset
    /\ [start |-> Consumed + offset, m |-> best.m, d_avg |-> best.d_avg,
        label |-> best.label, within |-> TRUE] \in returned'

\* the scan is at a search, not at the end of its loop
Scanning == pc = "scan" /\ (Len(data_rem) - offset) > min_length

\* the step leaves the scan without advancing the offset
BreaksAtOnce == pc' = "emit" /\ offset' = offset /\ info_best' = info_best /\ match' = match

\* C13: once a match is tracked, it is replaced only by a later match of the
\* same label with a strictly lower distance; a match of a different label
\* ends the scan at once with the tracked best unchanged; and the tracked
\* best is the match that is emitted.
C13_TrackedBestUpdate ==
    [][/\ Scanning /\ ~match /\ match' => IsMatchHere(info_best')
       /\ Scanning /\ match /\ info_best' # info_best =>
             /\ IsMatchHere(info_best')
             /\ info_best'.offset > info_best.offset
             /\ info_best'.label = info_best.label
             /\ info_best'.d_avg < info_best.d_avg
             /\ match'
       /\ Scanning /\ match
             /\ (\A v \in SearchOrders(Len(data_rem) - offset) :
                    MatchAt(v) /\ Search(SliceFrom(data_rem, offset), v).label_best # info_best.label)
             => BreaksAtOnce
       /\ Scanning /\ offset' = offset =>
             /\ BreaksAtOnce
             /\ match
             /\ \E v \in SearchOrders(Len(data_rem) - offset) :
                    MatchAt(v) /\ Search(SliceFrom(data_rem, offset), v).label_best # info_best.label
       /\ pc = "emit" => info_best' = info_best
       /\ pc = "emit" /\ match =>
             /\ labels'[Len(labels')] = info_best.label
             /\ data_segments'[Len(data_segments')] =
                    Slice(data_rem, info_best.offset, info_best.offset + info_best.m)
      ]_vars

\* a tracked best that replaced an earlier match of this scan, and a scan
\* that a match of another label has ended
C13_Witness ==
    /\ pc \in {"scan", "emit"}
    /\ match
    /\ \E rec \in returned :
          /\ rec.within
          /\ rec.start >= Consumed
          /\ rec.start < Consumed + info_best.offset
          /\ rec.label = info_best.label
          /\ rec.d_avg > info_best.d_avg

\* a scan ended by a match of another label than the tracked best
C13_WitnessOtherLabel ==
    /\ pc = "emit"
    /\ match
    /\ \E rec \in returned :
          /\ rec.within
          /\ rec.start = Consumed + offset
          /\ rec.label # info_best.label
          /\ offset > info_best.offset

\* the step is a search after which the scan goes on or stops by the early
\* termination test: not a break on another label
SearchAdvances == Scanning /\ offset' # offset

\* C14 (as claimed): once a match is tracked, the scan stops early exactly
\* when the offset is more than 10 steps of offset_step past the tracked
\* best's offset, or its advance exceeds the tracked best's length minus 1;
\* stated for the steps after which the remainder is not exhausted.
C14_EarlyTerminationAsClaimed ==
    [][SearchAdvances /\ match' /\ (Len(data_rem) - offset') > min_length =>
          (pc' = "emit" <=>
              \/ (offset' - info_best'.offset) > ScanLimit * cfg.offset_step
              \/ (offset' - info_best'.offset) > (info_best'.m - 1))
      ]_vars

\* what the code does: the advance is compared in points, and the scan
\* already stops when the advance equals the matched length minus 1
C14_EarlyTerminationAsCoded ==
    [][/\ SearchAdvances /\ match' =>
             (pc' = "emit" <=>
                 \/ (offset' - info_best'.offset) > ScanLimit
                 \/ (offset' - info_best'.offset) >= (info_best'.m - 1))
       /\ SearchAdvances /\ ~match' => pc' = "scan"
      ]_vars

\* a scan stopped with the offset on the last point of the tracked best
C14_StoppedOnLastPoint ==
    /\ pc = "emit"
    /\ match
    /\ Len(data_rem) - offset > min_length
    /\ offset - info_best.offset = info_best.m - 1

(***************************************************************************)
(* Properties of search_subsequence, on the searches the driver makes.     *)
(***************************************************************************)
\* the driver's call of search_subsequence with use_lower_bounds given
SearchWith(sequence, v, use_lower_bounds) ==
    search_subsequence(sequence, cfg.templates_norm, cfg.templates_info,
                       min_length, max_length, cfg.normalize, cfg.warping_window,
                       use_lower_bounds, cfg.length_step, v)

\* length_range of the driver's search on the sequence in order v
LengthRangeOf(sequence, v) ==
    LET mx == ClampMax(Len(sequence), max_length)
    IN  LengthRange(MidLength(ClampMin(min_length, mx), mx), v)

\* (len_best, d_min, label_best) when the loop reaches the i-th length
BestBefore(sequence, v, use_lower_bounds, i) ==
    LET mx == ClampMax(Len(sequence), max_length)
    IN  SearchLoop(sequence, cfg.templates_norm, cfg.templates_info, cfg.normalize,
                   cfg.warping_window, use_lower_bounds,
                   SubSeq(LengthRangeOf(sequence, v), 1, i - 1),
                   [len_best |-> MidLength(ClampMin(min_length, mx), mx),
                    d_min |-> Inf, label_best |-> 0])

\* d_lb1, d_lb2 and d of the candidate of length m
BoundsOf(sequence, m) ==
    LET sequence_norm == SequenceNorm(sequence, m, cfg.normalize)
    IN  [lb1 |-> average_lb_distance_to_templates1(sequence_norm, cfg.templates_info),
         lb2 |-> average_lb_distance_to_templates2(sequence_norm, cfg.templates_norm, cfg.templates_info),
         d   |-> average_distance_to_templates(sequence_norm, cfg.templates_norm, cfg.warping_window)[1]]

\* neither bound exceeds the average distance, at every visited length
BoundsSound(sequence, v) ==
    \A i \in 1..Len(LengthRangeOf(sequence, v)) :
        LET b == BoundsOf(sequence, LengthRangeOf(sequence, v)[i])
        IN  b.lb1 <= b.d /\ b.lb2 <= b.d

\* the i-th length is skipped by the search with lower bounds
Skipped(sequence, v, i) ==
    LET b    == BoundsOf(sequence, LengthRangeOf(sequence, v)[i])
        best == BestBefore(sequence, v, TRUE, i)
    IN  b.lb1 > best.d_min \/ b.lb2 > best.d_min

\* the pass of the loop over the i-th length, with and without lower bounds,
\* from the running best of the search with lower bounds
StepFrom(sequence, v, use_lower_bounds, i) ==
    SearchStep(sequence, cfg.templates_norm, cfg.templates_info, cfg.normalize,
               cfg.warping_window, use_lower_bounds, LengthRangeOf(sequence, v)[i],
               BestBefore(sequence, v, TRUE, i))

\* C15: in every visiting order, where neither bound exceeds the average
\* distance, the search with lower bounds returns what the search without
\* them returns; and a pass differs from the pass without bounds only at a
\* length whose Bound 1 or Bound 2 is strictly above the best distance so far.
C15_PruningPreservesResult ==
    Scanning =>
        \A v \in SearchOrders(Len(data_rem) - offset) :
            LET sequence == SliceFrom(data_rem, offset)
            IN  /\ BoundsSound(sequence, v) =>
                      SearchWith(sequence, v, TRUE) = SearchWith(sequence, v, FALSE)
                /\ \A i \in 1..Len(LengthRangeOf(sequence, v)) :
                      StepFrom(sequence, v, TRUE, i) # StepFrom(sequence, v, FALSE, i)
                          => Skipped(sequence, v, i)

\* a search whose bounds are sound and in which a length is skipped
C15_Witness ==
    /\ Scanning
    /\ \E v \in SearchOrders(Len(data_rem) - offset) :
          /\ BoundsSound(SliceFrom(data_rem, offset), v)
          /\ \E i \in 1..Len(LengthRangeOf(SliceFrom(data_rem, offset), v)) :
                Skipped(SliceFrom(data_rem, offset), v, i)

\* the same without the condition on the bounds
C15_PruningPreservesResultAlways ==
    Scanning =>
        \A v \in SearchOrders(Len(data_rem) - offset) :
            SearchWith(SliceFrom(data_rem, offset), v, TRUE)
                = SearchWith(SliceFrom(data_rem, offset), v, FALSE)

(***************************************************************************)
(* Properties of search_subsequence as a call of its own.                  *)
(***************************************************************************)
\* max_length clamped to the N available points
ClaimedMax == IF Len(s_sequence) < s_max_length THEN Len(s_sequence) ELSE s_max_length

\* min_length lowered to max(1, max_length - 1) when it is not below max_length
ClaimedMin ==
    IF s_min_length >= ClaimedMax
    THEN (IF ClaimedMax - 1 > 1 THEN ClaimedMax - 1 ELSE 1)
    ELSE s_min_length

\* {min_length, min_length + length_step, ...} up to max_length
ClaimedLengths == {l \in ClaimedMin..ClaimedMax : (l - ClaimedMin) % s_length_step = 0}

\* C16: the search visits the midpoint of the clamped range first, then
\* every other length of {min_length, min_length + length_step, ...} up to
\* max_length exactly once, and len_best is a visited length with
\* min_length <= len_best <= max_length <= N.
C16_VisitsAndLenBest ==
    s_pc = "done" =>
        /\ Len(s_visited) >= 1
        /\ 2 * s_visited[1] \in {ClaimedMin + ClaimedMax - 1, ClaimedMin + ClaimedMax, ClaimedMin + ClaimedMax + 1}
        /\ s_visited[1] = MidLength(ClaimedMin, ClaimedMax)
        /\ {s_visited[i] : i \in 2..Len(s_visited)} = ClaimedLengths \ {s_visited[1]}
        /\ \A i, j \in 1..Len(s_visited) : s_visited[i] = s_visited[j] => i = j
        /\ \E i \in 1..Len(s_visited) : s_out.len_best = s_visited[i]
        /\ ClaimedMin <= s_out.len_best
        /\ s_out.len_best <= ClaimedMax
        /\ ClaimedMax <= Len(s_sequence)

\* a search with max_length clamped, a step of 2 and a midpoint that is
\* not one of the stepped lengths
C16_Witness ==
    /\ s_pc = "done"
    /\ Len(s_sequence) < s_max_length
    /\ s_length_step = 2
    /\ Len(s_visited) >= 3
    /\ s_visited[1] \notin ClaimedLengths

\* a search with min_length lowered to max_length - 1
C16_WitnessMinLowered ==
    /\ s_pc = "done"
    /\ s_min_length > Len(s_sequence)
    /\ Len(s_visited) = 2

(***************************************************************************)
(* Termination of the driver.                                              *)
(***************************************************************************)
\* the place in the driver, later places lower
PlaceRank ==
    CASE pc = "outer" -> 4
      [] pc = "scan"  -> 3
      [] pc = "emit"  -> 2
      [] pc = "tail"  -> 1
      [] OTHER        -> 0

\* the points the inner scan has not passed
ScanLeft == IF pc = "scan" /\ Len(data_rem) > offset THEN Len(data_rem) - offset ELSE 0

\* the measure of what is left to do: the remainder, then the place, then
\* the points left to scan; its parts are natural numbers
Measure == <<Len(data_rem), PlaceRank, ScanLeft>>

\* a is below b in the lexicographic order
LexLess(a, b) ==
    \/ a[1] < b[1]
    \/ a[1] = b[1] /\ a[2] < b[2]
    \/ a[1] = b[1] /\ a[2] = b[2] /\ a[3] < b[3]

\* the guards of the driver's steps: one of them holds
StepPossible ==
    \/ pc = "outer" /\ Len(data_rem) > min_length
    \/ pc = "outer" /\ ~(Len(data_rem) > min_length)
    \/ Scanning /\ SearchOrders(Len(data_rem) - offset) # {}
    \/ pc = "scan" /\ ~((Len(data_rem) - offset) > min_length)
    \/ pc = "emit" /\ match
    \/ pc = "emit" /\ ~match
    \/ pc = "tail"

\* C17: segment_repeat_sequences terminates: a pass of the inner scan that
\* stays in the scan strictly increases the offset, an outer iteration with
\* a match shrinks the remainder by at least one point, one without a match
\* ends the outer loop; every step lowers a measure that cannot fall for
\* ever, and a step is possible until the driver returns.
C17_DriverTerminates ==
    /\ [][/\ LexLess(Measure', Measure)
          /\ pc = "scan" /\ pc' = "scan" =>
                /\ offset' > offset
                /\ data_rem' = data_rem
          /\ pc = "emit" /\ match =>
                /\ Len(data_rem') < Len(data_rem)
                /\ pc' = "outer"
          /\ pc = "emit" /\ ~match => pc' = "tail"
         ]_vars
    /\ [](pc # "done" => StepPossible)
    /\ [](cfg.offset_step >= 1 /\ min_length >= 1)

\* a return after more than one outer iteration, the last with a scan of
\* more than one search
C17_Witness ==
    /\ pc = "done"
    /\ Cardinality({i \in 1..Len(labels) : labels[i] # 0}) >= 2
    /\ offset >= 2

(***************************************************************************)
(* Properties of the segments the driver emits.                            *)
(***************************************************************************)
\* the segments appended by the step
Emitted == SubSeq(data_segments', Len(data_segments) + 1, Len(data_segments'))

\* C18: no emitted segment is empty: the unmatched prefix is emitted only
\* for a tracked offset > 0, a matched span has at least one point, the
\* remainder emitted without a match is longer than min_length, and the
\* trailing leftover is emitted only when it is not empty; it is then no
\* longer than min_length and no search has started on it.
C18_NoEmptySegment ==
    /\ [](\A i \in 1..Len(data_segments) : Len(data_segments[i]) >= 1)
    /\ [][/\ pc = "emit" /\ match /\ info_best.offset > 0 =>
                /\ Len(Emitted) = 2
                /\ Len(Emitted[1]) = info_best.offset
                /\ Len(Emitted[2]) = info_best.m
                /\ info_best.m >= 1
          /\ pc = "emit" /\ match /\ info_best.offset = 0 =>
                /\ Len(Emitted) = 1
                /\ Len(Emitted[1]) = info_best.m
                /\ info_best.m >= 1
          /\ pc = "emit" /\ ~match =>
                /\ Len(Emitted) = 1
                /\ Len(Emitted[1]) > min_length
          /\ pc = "tail" /\ Len(data_rem) = 0 => Len(Emitted) = 0
          /\ pc = "tail" /\ Len(data_rem) > 0 =>
                /\ Emitted = <<data_rem>>
                /\ Len(data_rem) <= min_length
                /\ \A rec \in returned : rec.start # Consumed
          /\ pc \notin {"emit", "tail"} => Len(Emitted) = 0
         ]_vars

\* a return with an unmatched prefix, its match at offset > 0, and a
\* trailing leftover
C18_Witness ==
    /\ pc = "done"
    /\ Len(labels) >= 3
    /\ labels[1] = 0
    /\ labels[2] # 0
    /\ labels[Len(labels)] = 0
    /\ Len(data_segments[Len(data_segments)]) <= min_length

\* a return after the remainder was emitted without a match
C18_WitnessNoMatch ==
    /\ pc = "done"
    /\ Len(labels) >= 2
    /\ labels[Len(labels)] = 0
    /\ Len(data_segments[Len(data_segments)]) > min_length

\* C19: no two consecutive segments carry label 0: an unmatched prefix is
\* followed at once by its labelled match, the remainder emitted without a
\* match is the last segment and leaves no leftover, and a trailing leftover
\* follows a labelled segment or nothing.
C19_NoConsecutiveUnmatched ==
    /\ [](\A i \in 1..(Len(labels) - 1) : ~(labels[i] = 0 /\ labels[i + 1] = 0))
    /\ [](Len(labels) = Len(data_segments))
    /\ [](pc \in {"outer", "scan", "emit"} /\ Len(labels) > 0 => labels[Len(labels)] # 0)
    /\ [][/\ pc = "emit" /\ match =>
                /\ labels'[Len(labels')] = info_best.label
                /\ info_best.label # 0
                /\ \A i \in (Len(labels) + 1)..(Len(labels') - 1) : labels'[i] = 0
          /\ pc = "emit" /\ ~match =>
                /\ labels' = Append(labels, 0)
                /\ data_rem' = <<>>
                /\ pc' = "tail"
          /\ pc = "tail" =>
                /\ pc' = "done"
                /\ labels' # labels => Len(labels) = 0 \/ labels[Len(labels)] # 0
          /\ pc = "done" => labels' = labels
         ]_vars

\* a return whose labels hold an unmatched prefix before its match and end
\* with the trailing leftover after a match
C19_Witness ==
    /\ pc = "done"
    /\ \E i \in 1..(Len(labels) - 2) : labels[i] = 0 /\ labels[i + 1] # 0
    /\ labels[Len(labels)] = 0
    /\ labels[Len(labels) - 1] # 0

=============================================================================
